---- MODULE Spec2Model ----
(***************************************************************************)
(* Model of the simulation engine of Agent-Based-Economy-Sim               *)
(* (src/simulation.py): Household, Firm and Simulation.                    *)
(*                                                                         *)
(* Money is a Python float.  A float is modelled as a binary floating      *)
(* point number with MantDig significant bits, round-to-nearest-even and   *)
(* gradual underflow; the value v is carried as the integer v * 2^FracBits *)
(* (a count of the smallest positive float).  Python's binary64 has 53     *)
(* significant bits; MantDig scales that down so that every product fits   *)
(* 32-bit integer arithmetic.  Every float operation of the source is one  *)
(* rounded operation of the model; Round was compared with Python floats   *)
(* at 53 bits.                                                             *)
(***************************************************************************)
EXTENDS Integers, Sequences, FiniteSets, TLC

\* ---------------------------------------------------------------- bounds
MantDig == 10
FracBits == 10
MaxAgents == 4
MaxTicks == 2

\* ---------------------------------------------------- program constants
FOOD_PER_PERSON == 1

\* ------------------------------------------------------------ float model
RECURSIVE Pow2(_)
Pow2(n) == IF n = 0 THEN 1 ELSE 2 * Pow2(n - 1)

\* the float 1.0, in units of the smallest positive float
One == Pow2(FracBits)

Abs(x) == IF x < 0 THEN -x ELSE x

\* the first magnitude that does not fit the significand
MantLimit == Pow2(MantDig)

\* spacing of the floats around the magnitude n (n >= 0): the unit in the
\* last place
RECURSIVE Ulp(_)
Ulp(n) == IF n < MantLimit THEN 1 ELSE 2 * Ulp(n \div 2)

\* the float nearest to num/den (num >= 0, den > 0), ties to even: s is the
\* spacing of the floats around num/den, lo the float just below or at num/den
\* (s and lo are bound as function arguments, which evaluates each of them once)
RoundPos(num, den) ==
    [s \in Int |->
        [lo \in Int |->
            LET r2 == 2 * (num - lo * den)
            IN  IF r2 < den * s THEN lo
                ELSE IF r2 > den * s THEN lo + s
                ELSE IF (lo \div s) % 2 = 0 THEN lo ELSE lo + s
        ][(num \div (den * s)) * s]
    ][Ulp(num \div den)]

\* the float nearest to num/den (den > 0)
Round(num, den) ==
    [n \in Int |-> IF n < 0 THEN -RoundPos(-n, den) ELSE RoundPos(n, den)][num]

\* float(n) for a Python int n
FromInt(n) == Round(n * One, 1)

\* int(x) for a float x: truncation toward zero
ToInt(x) == IF x < 0 THEN -((-x) \div One) ELSE x \div One

\* x + y, x - y, x * y, x / y on floats
fadd(x, y) == Round(x + y, 1)
fsub(x, y) == Round(x - y, 1)
fmul(x, y) == Round(x * y, One)
fdiv(x, y) == IF y < 0 THEN Round(-(x * One), -y) ELSE Round(x * One, y)

\* the float a decimal literal num/den of the configuration file parses to
Lit(num, den) == Round(num * One, den)

\* ---------------------------------------------------------- configuration
\* values of config.json: N_F, N_H, M0, p, wage_rate, household_size
ConfigM0 == {5, 76}
ConfigP == {Lit(1, 1), Lit(845, 100)}
ConfigWageRate == {Lit(1, 2), Lit(1, 10), Lit(1, 1)}
ConfigHouseholdSize == {1, 3}

\* at most MaxAgents agents, at least one firm and one household
Configs ==
    {cfg \in [N_F : 1..(MaxAgents - 1), N_H : 1..(MaxAgents - 1),
              M0 : ConfigM0, p : ConfigP, wage_rate : ConfigWageRate,
              household_size : ConfigHouseholdSize] :
        cfg.N_F + cfg.N_H <= MaxAgents}

\* ------------------------------------------------------------------ state
VARIABLES
    config,                 \* Simulation.config
    households,             \* Simulation.households: id -> Household
    firms,                  \* Simulation.firms: id -> Firm
    phase,                  \* "READY" between ticks, "RUNNING" inside run_one_tick
    hidx,                   \* position of the shopping loop (next household id)
    fidx,                   \* position of the payday loop (next firm id)
    transactions_this_tick, \* local list of run_one_tick
    returned,               \* the list the last run_one_tick returned
    tick,                   \* number of run_one_tick calls started
    shopped,                \* history: the purchases of the tick so far
    pre,                    \* history: households and firms when the tick started
    last                    \* history: the last step taken and its inputs

vars == <<config, households, firms, phase, hidx, fidx,
          transactions_this_tick, returned, tick, shopped, pre, last>>

HouseholdIds == DOMAIN households
FirmIds == DOMAIN firms

\* --------------------------------------------------------------- Household
\* Household.__init__
NewHousehold(id, balance, size) ==
    [id |-> id, balance |-> balance, size |-> size, employer_id |-> -1]

\* Household.determine_food_demand
determine_food_demand(hh, food_per_person) == hh.size * food_per_person

\* place_order_and_pay without the affordability branch: the household always
\* buys its whole demand
place_order_and_pay_unclamped(hh, price) ==
    LET food_demand == determine_food_demand(hh, FOOD_PER_PERSON)
        cost == fmul(FromInt(food_demand), price)
    IN  [qty |-> food_demand, balance |-> fsub(hh.balance, cost)]

\* Household.place_order_and_pay: the quantity returned and the new balance
place_order_and_pay(hh, price) ==
    LET food_demand == determine_food_demand(hh, FOOD_PER_PERSON)
        cost == fmul(FromInt(food_demand), price)
    IN  IF hh.balance >= cost
        THEN [qty |-> food_demand, balance |-> fsub(hh.balance, cost)]
        ELSE LET purchased_quantity == ToInt(fdiv(hh.balance, price))
             IN  [qty |-> purchased_quantity,
                  balance |-> fsub(hh.balance,
                                   fmul(FromInt(purchased_quantity), price))]

\* -------------------------------------------------------------------- Firm
\* Firm.__init__ with the price and the wage rate taken in the wrong order
NewFirm_swapped(id, price, wage_rate) ==
    [id |-> id, balance |-> 0, price |-> wage_rate, wage_rate |-> price,
     worker_ids |-> <<>>, revenue_this_tick |-> 0]

\* Firm.__init__
NewFirm(id, price, wage_rate) ==
    [id |-> id, balance |-> 0, price |-> price, wage_rate |-> wage_rate,
     worker_ids |-> <<>>, revenue_this_tick |-> 0]

\* add_worker that registers the household twice
add_worker_twice(firm, household_id) ==
    [firm EXCEPT !.worker_ids = Append(Append(@, household_id), household_id)]

\* Firm.add_worker
add_worker(firm, household_id) ==
    [firm EXCEPT !.worker_ids = Append(@, household_id)]

\* a payment that never reaches the firm
receive_payment_lost(firm, amount) == firm

\* Firm.receive_payment
receive_payment(firm, amount) ==
    [firm EXCEPT !.revenue_this_tick = fadd(@, amount)]

\* a wage loop that credits every household of the registry, not only the
\* workers of the roster
DistributeWages_all(hhs, worker_ids, wage_per_worker) ==
    [h \in DOMAIN hhs |-> [hhs[h] EXCEPT !.balance = fadd(@, wage_per_worker)]]

\* the wage distribution loop of Firm.pay_workers: every id of the roster, in
\* roster order, is credited wage_per_worker
RECURSIVE DistributeWages(_, _, _)
DistributeWages(hhs, worker_ids, wage_per_worker) ==
    IF worker_ids = <<>> THEN hhs
    ELSE DistributeWages(
             [hhs EXCEPT ![Head(worker_ids)].balance = fadd(@, wage_per_worker)],
             Tail(worker_ids), wage_per_worker)

\* pay_workers without the final debit of the firm: the wages are paid twice
\* over, once to the workers and once kept by the firm
pay_workers_keeps_payout(firm, households_dict) ==
    LET folded == fadd(firm.balance, firm.revenue_this_tick)
        f1 == [firm EXCEPT !.balance = folded, !.revenue_this_tick = 0]
    IN  IF firm.worker_ids = <<>>
        THEN [firm |-> f1, households |-> households_dict,
              total_payout |-> 0, wage_per_worker |-> 0]
        ELSE LET total_payout == fmul(folded, firm.wage_rate)
                 wage_per_worker ==
                     fdiv(total_payout, FromInt(Len(firm.worker_ids)))
             IN  [firm |-> f1,
                  households |-> DistributeWages(households_dict,
                                     firm.worker_ids, wage_per_worker),
                  total_payout |-> total_payout,
                  wage_per_worker |-> wage_per_worker]

\* pay_workers paying every worker the whole payout instead of a share
pay_workers_undivided(firm, households_dict) ==
    LET folded == fadd(firm.balance, firm.revenue_this_tick)
        f1 == [firm EXCEPT !.balance = folded, !.revenue_this_tick = 0]
    IN  IF firm.worker_ids = <<>>
        THEN [firm |-> f1, households |-> households_dict,
              total_payout |-> 0, wage_per_worker |-> 0]
        ELSE LET total_payout == fmul(folded, firm.wage_rate)
                 wage_per_worker == total_payout
             IN  [firm |-> [f1 EXCEPT !.balance = fsub(folded, total_payout)],
                  households |-> DistributeWages(households_dict,
                                     firm.worker_ids, wage_per_worker),
                  total_payout |-> total_payout,
                  wage_per_worker |-> wage_per_worker]

\* pay_workers computing the wages from the balance without the tick's revenue
pay_workers_no_fold(firm, households_dict) ==
    LET folded == firm.balance
        f1 == [firm EXCEPT !.balance = folded, !.revenue_this_tick = 0]
    IN  IF firm.worker_ids = <<>>
        THEN [firm |-> f1, households |-> households_dict,
              total_payout |-> 0, wage_per_worker |-> 0]
        ELSE LET total_payout == fmul(folded, firm.wage_rate)
                 wage_per_worker ==
                     fdiv(total_payout, FromInt(Len(firm.worker_ids)))
             IN  [firm |-> [f1 EXCEPT !.balance = fsub(folded, total_payout)],
                  households |-> DistributeWages(households_dict,
                                     firm.worker_ids, wage_per_worker),
                  total_payout |-> total_payout,
                  wage_per_worker |-> wage_per_worker]

\* pay_workers that folds the revenue into the balance but leaves the
\* accumulator as it is
pay_workers_no_reset(firm, households_dict) ==
    LET folded == fadd(firm.balance, firm.revenue_this_tick)
        f1 == [firm EXCEPT !.balance = folded]
    IN  IF firm.worker_ids = <<>>
        THEN [firm |-> f1, households |-> households_dict,
              total_payout |-> 0, wage_per_worker |-> 0]
        ELSE LET total_payout == fmul(folded, firm.wage_rate)
                 wage_per_worker ==
                     fdiv(total_payout, FromInt(Len(firm.worker_ids)))
             IN  [firm |-> [f1 EXCEPT !.balance = fsub(folded, total_payout)],
                  households |-> DistributeWages(households_dict,
                                     firm.worker_ids, wage_per_worker),
                  total_payout |-> total_payout,
                  wage_per_worker |-> wage_per_worker]

\* pay_workers returning for an empty roster before it has folded the revenue
\* into the balance
pay_workers_empty_drops(firm, households_dict) ==
    LET folded == fadd(firm.balance, firm.revenue_this_tick)
        f1 == [firm EXCEPT !.balance = folded, !.revenue_this_tick = 0]
    IN  IF firm.worker_ids = <<>>
        THEN [firm |-> [firm EXCEPT !.revenue_this_tick = 0],
              households |-> households_dict,
              total_payout |-> 0, wage_per_worker |-> 0]
        ELSE LET total_payout == fmul(folded, firm.wage_rate)
                 wage_per_worker ==
                     fdiv(total_payout, FromInt(Len(firm.worker_ids)))
             IN  [firm |-> [f1 EXCEPT !.balance = fsub(folded, total_payout)],
                  households |-> DistributeWages(households_dict,
                                     firm.worker_ids, wage_per_worker),
                  total_payout |-> total_payout,
                  wage_per_worker |-> wage_per_worker]

\* pay_workers consuming its roster while it pays (pop instead of iterate)
pay_workers_pops_roster(firm, households_dict) ==
    LET folded == fadd(firm.balance, firm.revenue_this_tick)
        f1 == [firm EXCEPT !.balance = folded, !.revenue_this_tick = 0]
    IN  IF firm.worker_ids = <<>>
        THEN [firm |-> f1, households |-> households_dict,
              total_payout |-> 0, wage_per_worker |-> 0]
        ELSE LET total_payout == fmul(folded, firm.wage_rate)
                 wage_per_worker ==
                     fdiv(total_payout, FromInt(Len(firm.worker_ids)))
             IN  [firm |-> [f1 EXCEPT !.balance = fsub(folded, total_payout),
                                      !.worker_ids = <<>>],
                  households |-> DistributeWages(households_dict,
                                     firm.worker_ids, wage_per_worker),
                  total_payout |-> total_payout,
                  wage_per_worker |-> wage_per_worker]

\* Firm.pay_workers: the firm and the household registry after the call
pay_workers(firm, households_dict) ==
    LET folded == fadd(firm.balance, firm.revenue_this_tick)
        f1 == [firm EXCEPT !.balance = folded, !.revenue_this_tick = 0]
    IN  IF firm.worker_ids = <<>>
        THEN [firm |-> f1, households |-> households_dict,
              total_payout |-> 0, wage_per_worker |-> 0]
        ELSE LET total_payout == fmul(folded, firm.wage_rate)
                 wage_per_worker ==
                     fdiv(total_payout, FromInt(Len(firm.worker_ids)))
             IN  [firm |-> [f1 EXCEPT !.balance = fsub(folded, total_payout)],
                  households |-> DistributeWages(households_dict,
                                     firm.worker_ids, wage_per_worker),
                  total_payout |-> total_payout,
                  wage_per_worker |-> wage_per_worker]

\* -------------------------------------------------------------- Simulation
\* the household loop of Simulation._setup_world from household i on; choice
\* is the outcome of random.choice for every household
RECURSIVE SetupHouseholds(_, _, _, _, _)
SetupHouseholds(cfg, choice, i, hhs, fs) ==
    IF i = cfg.N_H THEN [households |-> hhs, firms |-> fs]
    ELSE LET initial_balance == Round(cfg.M0 * One, cfg.N_H)
             hh == NewHousehold(i, initial_balance, cfg.household_size)
             employer_firm_id == choice[i]
         IN  SetupHouseholds(cfg, choice, i + 1,
                 [j \in 0..i |-> IF j = i
                                 THEN [hh EXCEPT !.employer_id = employer_firm_id]
                                 ELSE hhs[j]],
                 [fs EXCEPT ![employer_firm_id] = add_worker(@, i)])

\* Simulation._setup_world
setup_world(cfg, choice) ==
    SetupHouseholds(cfg, choice, 0, <<>>,
        [i \in 0..(cfg.N_F - 1) |-> NewFirm(i, cfg.p, cfg.wage_rate)])

NoStep == [op |-> "none"]

\* Simulation.__init__: the engine after construction
Init ==
    \E cfg \in Configs :
        \E choice \in [0..(cfg.N_H - 1) -> 0..(cfg.N_F - 1)] :
            LET world == setup_world(cfg, choice)
            IN  /\ config = cfg
                /\ households = world.households
                /\ firms = world.firms
                /\ phase = "READY"
                /\ hidx = 0
                /\ fidx = 0
                /\ transactions_this_tick = <<>>
                /\ returned = <<>>
                /\ tick = 0
                /\ shopped = <<>>
                /\ pre = [households |-> world.households, firms |-> world.firms]
                /\ last = NoStep

\* run_one_tick that keeps appending to the list of the previous call
StartTick_keeps_list ==
    /\ phase = "READY"
    /\ tick < MaxTicks
    /\ phase' = "RUNNING"
    /\ hidx' = 0
    /\ fidx' = 0
    /\ transactions_this_tick' = returned
    /\ tick' = tick + 1
    /\ shopped' = <<>>
    /\ pre' = [households |-> households, firms |-> firms]
    /\ last' = [op |-> "start"]
    /\ UNCHANGED <<config, households, firms, returned>>

\* run_one_tick, entry: firm_list and the empty transaction list
StartTick ==
    /\ phase = "READY"
    /\ tick < MaxTicks
    /\ phase' = "RUNNING"
    /\ hidx' = 0
    /\ fidx' = 0
    /\ transactions_this_tick' = <<>>
    /\ tick' = tick + 1
    /\ shopped' = <<>>
    /\ pre' = [households |-> households, firms |-> firms]
    /\ last' = [op |-> "start"]
    /\ UNCHANGED <<config, households, firms, returned>>

\* the shopping loop has a household left to visit
MoreHouseholds == hidx < Cardinality(HouseholdIds)

\* a payday loop that is never entered
ShoppingDone_never == FALSE

\* a payday that does not wait for the shopping loop
ShoppingDone_early == TRUE

\* the payday loop starts when the shopping loop has ended
ShoppingDone == hidx = Cardinality(HouseholdIds)

\* a test that lets a purchase of a single unit go unrecorded
IsTransaction_many(purchased_qty) == purchased_qty > 1

\* a test that lets empty purchases through
IsTransaction_any(purchased_qty) == purchased_qty >= 0

\* the test of run_one_tick that decides whether a purchase is recorded
IsTransaction(purchased_qty) == purchased_qty > 0

\* the payday loop has visited every firm
PaydayDone == fidx = Cardinality(FirmIds)

\* run_one_tick, one iteration of the shopping loop: household hidx buys from
\* the firm random.choice picked
ShopStep(chosen) ==
    /\ phase = "RUNNING"
    /\ MoreHouseholds
    /\ LET hh == households[hidx]
           chosen_firm == firms[chosen]
           order == place_order_and_pay(hh, chosen_firm.price)
           amount == fmul(FromInt(order.qty), chosen_firm.price)
       IN  /\ households' = [households EXCEPT ![hidx].balance = order.balance]
           /\ IF IsTransaction(order.qty)
              THEN /\ firms' = [firms EXCEPT ![chosen] = receive_payment(@, amount)]
                   /\ transactions_this_tick' =
                          Append(transactions_this_tick,
                                 [from_id |-> hh.id, to_id |-> chosen_firm.id,
                                  amount |-> amount])
              ELSE UNCHANGED <<firms, transactions_this_tick>>
           /\ last' = [op |-> "shop", hh |-> hidx, firm |-> chosen,
                       price |-> chosen_firm.price, balance |-> hh.balance,
                       qty |-> order.qty, amount |-> amount]
           /\ shopped' = Append(shopped, [hh |-> hidx, firm |-> chosen,
                                          qty |-> order.qty, amount |-> amount])
    /\ hidx' = hidx + 1
    /\ UNCHANGED <<config, phase, fidx, returned, tick, pre>>

\* run_one_tick, one iteration of the payday loop: firm fidx pays its workers
PaydayStep ==
    /\ phase = "RUNNING"
    /\ ShoppingDone
    /\ ~PaydayDone
    /\ LET paid == pay_workers(firms[fidx], households)
       IN  /\ firms' = [firms EXCEPT ![fidx] = paid.firm]
           /\ households' = paid.households
           /\ last' = [op |-> "payday", firm |-> fidx,
                       balance |-> firms[fidx].balance,
                       revenue |-> firms[fidx].revenue_this_tick,
                       total_payout |-> paid.total_payout,
                       wage_per_worker |-> paid.wage_per_worker]
    /\ fidx' = fidx + 1
    /\ UNCHANGED <<config, phase, hidx, transactions_this_tick, returned,
                   tick, shopped, pre>>

\* run_one_tick, return transactions_this_tick
ReturnTick ==
    /\ phase = "RUNNING"
    /\ ShoppingDone
    /\ PaydayDone
    /\ phase' = "READY"
    /\ returned' = transactions_this_tick
    /\ last' = [op |-> "return"]
    /\ UNCHANGED <<config, households, firms, hidx, fidx,
                   transactions_this_tick, tick, shopped, pre>>

Next ==
    \/ StartTick
    \/ \E chosen \in FirmIds : ShopStep(chosen)
    \/ PaydayStep
    \/ ReturnTick

Spec == Init /\ [][Next]_vars

\* ================================================================= claims
\* exact sum of the balances of the agents S of a registry
RECURSIVE SumBalance(_, _)
SumBalance(agents, S) ==
    IF S = {} THEN 0
    ELSE LET x == CHOOSE y \in S : TRUE
         IN  agents[x].balance + SumBalance(agents, S \ {x})

\* the money held in balances: all household balances plus all firm balances
TotalMoney(hhs, fs) == SumBalance(hhs, DOMAIN hhs) + SumBalance(fs, DOMAIN fs)

N_H == Cardinality(HouseholdIds)
N_F == Cardinality(FirmIds)

Min(a, b) == IF a < b THEN a ELSE b

\* C1 as stated: the sum of all household and firm balances right after
\* run_one_tick returns equals the sum right before the call, exactly.
C1_ConservationExact ==
    last.op = "return" =>
        TotalMoney(households, firms) = TotalMoney(pre.households, pre.firms)

\* C1 (amended): the sum of all household and firm balances right after
\* run_one_tick returns equals the sum right before the call up to
\* floating-point rounding: the two differ by at most 2 * (N_H + N_F) units in
\* the last place of the sum before the call.
C1_ConservationWithinRounding ==
    last.op = "return" =>
        Abs(TotalMoney(households, firms) - TotalMoney(pre.households, pre.firms))
            <= 2 * (N_H + N_F) * Ulp(TotalMoney(pre.households, pre.firms))

\* a tick with purchases and wages has returned and rounding moved the total
C1_Witness ==
    /\ last.op = "return"
    /\ returned # <<>>
    /\ \E h \in HouseholdIds :
           households[h].balance > pre.households[h].balance
    /\ TotalMoney(households, firms) # TotalMoney(pre.households, pre.firms)

\* C2: a household with balance >= 0 that buys at a price > 0 has a balance
\* >= 0 after place_order_and_pay.
C2_NonNegativeAfterPurchase ==
    (last.op = "shop" /\ last.balance >= 0 /\ last.price > 0) =>
        households[last.hh].balance >= 0

FoldedBalance(f) == fadd(firms[f].balance, firms[f].revenue_this_tick)

\* the ids on a roster
Roster(worker_ids) == {worker_ids[i] : i \in 1..Len(worker_ids)}

\* C4 as stated: pay_workers of a firm with folded balance B and k workers
\* credits every worker exactly (B * wage_rate) / k and leaves the firm with
\* B * (1 - wage_rate); with k = 0 nobody is credited and the firm keeps B.
C4_PaydayExact ==
    [][last'.op = "payday" =>
        LET f == last'.firm
            B == FoldedBalance(f)
            w == firms[f].wage_rate
            k == Len(firms[f].worker_ids)
        IN  IF k = 0
            THEN households' = households /\ firms'[f].balance = B
            ELSE /\ \A h \in Roster(firms[f].worker_ids) :
                        (households'[h].balance - households[h].balance) * One * k
                            = B * w
                 /\ firms'[f].balance * One = B * (One - w)]_vars

\* C4 (amended): pay_workers of a firm with folded balance B and k > 0 workers
\* adds to the balance of every worker on the roster, by one float addition,
\* the same wage W and leaves every other household alone; W equals
\* (B * wage_rate) / k, and the firm's new balance equals B * (1 - wage_rate),
\* to within one unit in the last place of B.  With k = 0 no household is
\* credited and the firm's balance is exactly B.
C4_PaydayWithinRounding ==
    [][last'.op = "payday" =>
        LET f == last'.firm
            B == FoldedBalance(f)
            w == firms[f].wage_rate
            k == Len(firms[f].worker_ids)
            W == last'.wage_per_worker
        IN  IF k = 0
            THEN households' = households /\ firms'[f].balance = B
            ELSE /\ \A h \in HouseholdIds :
                        households'[h].balance =
                            IF h \in Roster(firms[f].worker_ids)
                            THEN fadd(households[h].balance, W)
                            ELSE households[h].balance
                 /\ Abs(W * One * k - B * w) <= Ulp(Abs(B)) * One * k
                 /\ Abs(firms'[f].balance * One - B * (One - w))
                        <= Ulp(Abs(B)) * One]_vars

\* a firm with two or more workers has paid wages that are not the exact share
C4_Witness ==
    /\ last.op = "payday"
    /\ Len(firms[last.firm].worker_ids) >= 2
    /\ last.wage_per_worker > 0
    /\ last.wage_per_worker * One * Len(firms[last.firm].worker_ids)
           # fadd(last.balance, last.revenue) * firms[last.firm].wage_rate

\* C5: the balance a household shops with in a tick is its balance from before
\* the tick: no payday of the tick has run when a household buys.
C5_SettlementLag ==
    last.op = "shop" =>
        /\ fidx = 0
        /\ last.balance = pre.households[last.hh].balance

\* a household that was paid wages in an earlier tick shops in a later one
C5_Witness ==
    /\ last.op = "shop"
    /\ tick >= 2
    /\ last.balance > Round(config.M0 * One, config.N_H)

\* C6: a shopping step appends the record {from_id, to_id, amount = quantity *
\* price} and adds the amount to the chosen firm's revenue exactly when the
\* quantity is > 0; otherwise no record and no revenue change; every record has
\* amount > 0.
C6_RecordIffBought ==
    [][last'.op = "shop" =>
        LET h == last'.hh
            c == last'.firm
            q == last'.qty
            amount == fmul(FromInt(q), firms[c].price)
        IN  /\ IF q > 0
               THEN /\ transactions_this_tick' =
                           Append(transactions_this_tick,
                                  [from_id |-> households[h].id,
                                   to_id |-> firms[c].id, amount |-> amount])
                    /\ \A f \in FirmIds :
                           firms'[f].revenue_this_tick =
                               IF f = c
                               THEN fadd(firms[f].revenue_this_tick, amount)
                               ELSE firms[f].revenue_this_tick
               ELSE /\ transactions_this_tick' = transactions_this_tick
                    /\ \A f \in FirmIds :
                           firms'[f].revenue_this_tick = firms[f].revenue_this_tick
            /\ \A i \in 1..Len(transactions_this_tick') :
                   transactions_this_tick'[i].amount > 0]_vars

\* a household bought nothing in a tick in which another household bought
C6_Witness ==
    /\ last.op = "shop"
    /\ last.qty = 0
    /\ Len(transactions_this_tick) > 0

\* C7 as stated: the firm's balance after pay_workers is balance_before_fold *
\* (1 - wage_rate) with a roster, balance_before_fold without one.
C7_BalanceBeforeFold ==
    last.op = "payday" =>
        LET firm == firms[last.firm]
        IN  IF firm.worker_ids # <<>>
            THEN firm.balance * One = last.balance * (One - firm.wage_rate)
            ELSE firm.balance = last.balance

\* C7 (amended): the firm's balance after pay_workers is (balance_before_fold
\* + revenue_this_tick) * (1 - wage_rate) with a roster, to within two units in
\* the last place of balance_before_fold + revenue_this_tick, and the float
\* nearest to balance_before_fold + revenue_this_tick without one.
C7_BalanceAfterFold ==
    last.op = "payday" =>
        LET firm == firms[last.firm]
            sum == last.balance + last.revenue
        IN  IF firm.worker_ids # <<>>
            THEN Abs(firm.balance * One - sum * (One - firm.wage_rate))
                     <= 2 * Ulp(Abs(sum)) * One
            ELSE 2 * Abs(firm.balance - sum) <= Ulp(Abs(sum))

\* a firm with workers, an earlier balance and revenue of the tick has paid
C7_Witness ==
    /\ last.op = "payday"
    /\ last.balance > 0
    /\ last.revenue > 0
    /\ firms[last.firm].worker_ids # <<>>

\* number of occurrences of x in the sequence seq
RECURSIVE Count(_, _)
Count(seq, x) ==
    IF seq = <<>> THEN 0
    ELSE (IF Head(seq) = x THEN 1 ELSE 0) + Count(Tail(seq), x)

\* C8: every household has one employer id, a firm id of 0..N_F-1, and is
\* exactly once on that firm's roster and on no other roster.
C8_EmploymentStructure ==
    /\ FirmIds = 0..(config.N_F - 1)
    /\ \A h \in HouseholdIds :
           /\ households[h].employer_id \in FirmIds
           /\ \A f \in FirmIds :
                  Count(firms[f].worker_ids, h) =
                      IF f = households[h].employer_id THEN 1 ELSE 0
    /\ \A f \in FirmIds : Roster(firms[f].worker_ids) \subseteq HouseholdIds

\* ticks have run on a world with an empty roster and a shared employer
C8_Witness ==
    /\ last.op = "return"
    /\ \E f \in FirmIds : firms[f].worker_ids = <<>>
    /\ \E f \in FirmIds : Len(firms[f].worker_ids) >= 2

\* the records the shopping steps of the tick generated, in step order
RECURSIVE RecordsOf(_)
RecordsOf(steps) ==
    IF steps = <<>> THEN <<>>
    ELSE LET st == Head(steps)
         IN  (IF st.qty > 0
              THEN <<[from_id |-> st.hh, to_id |-> st.firm, amount |-> st.amount]>>
              ELSE <<>>) \o RecordsOf(Tail(steps))

\* C9: run_one_tick returns exactly the records of that call's shopping phase:
\* at most one per household, in household id order, nothing from earlier
\* ticks and nothing from payday.
C9_ReturnedList ==
    last.op = "return" =>
        /\ Len(shopped) = N_H
        /\ \A i \in 1..Len(shopped) : shopped[i].hh = i - 1
        /\ returned = RecordsOf(shopped)
        /\ Len(returned) <= N_H
        /\ \A i, j \in 1..Len(returned) :
               i < j => returned[i].from_id < returned[j].from_id

\* a later tick returned records for some households and none for others
C9_Witness ==
    /\ last.op = "return"
    /\ tick >= 2
    /\ Len(returned) >= 1
    /\ Len(returned) < N_H

\* C10: no step of run_one_tick changes the population, the configuration, a
\* household's id, size or employer id, or a firm's id, price, wage rate or
\* roster.
C10_FixedAttributes ==
    [][/\ config' = config
       /\ DOMAIN households' = DOMAIN households
       /\ DOMAIN firms' = DOMAIN firms
       /\ \A h \in HouseholdIds :
              /\ households'[h].id = h
              /\ households'[h].id = households[h].id
              /\ households'[h].size = households[h].size
              /\ households'[h].employer_id = households[h].employer_id
       /\ \A f \in FirmIds :
              /\ firms'[f].id = f
              /\ firms'[f].id = firms[f].id
              /\ firms'[f].price = firms[f].price
              /\ firms'[f].wage_rate = firms[f].wage_rate
              /\ firms'[f].worker_ids = firms[f].worker_ids]_vars

\* a tick has changed household balances and firm balances
C10_Witness ==
    /\ last.op = "return"
    /\ \E h \in HouseholdIds : households[h].balance # pre.households[h].balance
    /\ \E f \in FirmIds : firms[f].balance # pre.firms[f].balance
    /\ \E f \in FirmIds : firms[f].worker_ids # <<>>

\* C11 as stated: place_order_and_pay at price P > 0 of a household of size s
\* with balance B >= 0 returns s when B >= s * P and floor(B / P) otherwise;
\* the quantity is an integer in 0..s; the balance is debited by the returned
\* quantity times P (the float debit the code makes); a returned quantity of 0
\* leaves the balance unchanged.
C11_PurchaseRule ==
    (last.op = "shop" /\ last.balance >= 0 /\ last.price > 0) =>
        LET s == households[last.hh].size
            B == last.balance
            P == last.price
        IN  /\ last.qty = (IF B >= s * P THEN s ELSE B \div P)
            /\ last.qty \in 0..s
            /\ households[last.hh].balance = fsub(B, fmul(FromInt(last.qty), P))
            /\ (last.qty = 0 => households[last.hh].balance = B)

\* the amounts of the purchase steps of steps that were sales to firm f
RECURSIVE SalesTo(_, _)
SalesTo(steps, f) ==
    IF steps = <<>> THEN <<>>
    ELSE LET s == steps[Len(steps)]
             front == SalesTo(SubSeq(steps, 1, Len(steps) - 1), f)
         IN  IF s.firm = f /\ s.qty > 0 THEN Append(front, s.amount) ELSE front

\* the exact sum of a sequence of amounts
RECURSIVE ExactSum(_)
ExactSum(amounts) ==
    IF amounts = <<>> THEN 0 ELSE Head(amounts) + ExactSum(Tail(amounts))

\* the sum of a sequence of amounts as a float accumulator started at 0.0
\* builds it, one rounded addition per amount, first amount first
RECURSIVE FloatSum(_)
FloatSum(amounts) ==
    IF amounts = <<>> THEN 0
    ELSE fadd(FloatSum(SubSeq(amounts, 1, Len(amounts) - 1)),
              amounts[Len(amounts)])

\* the discipline of the revenue accumulators, with the sum they are compared
\* with during shopping either the exact sum or the float sum of the sales
RevenueDiscipline(exact) ==
    LET Sum(a) == IF exact THEN ExactSum(a) ELSE FloatSum(a)
    IN  /\ phase = "READY" =>
               \A f \in FirmIds : firms[f].revenue_this_tick = 0
        /\ phase = "RUNNING" =>
               \A f \in FirmIds :
                   firms[f].revenue_this_tick =
                       IF f < fidx THEN 0 ELSE Sum(SalesTo(shopped, f))
        /\ last.op = "payday" =>
               LET f == last.firm
                   folded == fadd(last.balance, last.revenue)
               IN  /\ last.revenue = Sum(SalesTo(shopped, f))
                   /\ firms[f].revenue_this_tick = 0
                   /\ firms[f].balance = fsub(folded, last.total_payout)
                   /\ last.total_payout =
                          IF firms[f].worker_ids = <<>> THEN 0
                          ELSE fmul(folded, firms[f].wage_rate)

\* C12 as stated: the accumulator of every firm is 0 between ticks; during a
\* shopping phase it equals exactly the sum of the tick's sales to the firm so
\* far; payday folds it into the balance once, before the wages are computed,
\* and resets it to 0.
C12_AccumulatorExact == RevenueDiscipline(TRUE)

\* C12 (amended): the accumulator of every firm is 0 between ticks; during a
\* shopping phase it equals the float sum of the tick's sales to the firm so
\* far, added in purchase order with one rounding per sale; payday folds it
\* into the balance once, before the wages are computed, and resets it to 0.
C12_AccumulatorFloatSum == RevenueDiscipline(FALSE)

\* a firm is paid in the second tick the float sum of three sales, which is
\* not their exact sum, after its accumulator was reset in the first tick
C12_Witness ==
    /\ last.op = "payday"
    /\ tick = 2
    /\ Len(SalesTo(shopped, last.firm)) >= 2
    /\ last.revenue # ExactSum(SalesTo(shopped, last.firm))
    /\ firms[last.firm].revenue_this_tick = 0

\* the world _setup_world builds for the configuration, apart from the total:
\* N_F firms with ids 0..N_F-1, balance 0, revenue 0 and the configured price
\* and wage rate; N_H households with ids 0..N_H-1, the configured size and the
\* float nearest to M0 / N_H as balance
InitialWorld ==
    /\ FirmIds = 0..(config.N_F - 1)
    /\ \A f \in FirmIds :
           /\ firms[f].id = f
           /\ firms[f].balance = 0
           /\ firms[f].revenue_this_tick = 0
           /\ firms[f].price = config.p
           /\ firms[f].wage_rate = config.wage_rate
    /\ HouseholdIds = 0..(config.N_H - 1)
    /\ \A h \in HouseholdIds :
           /\ households[h].id = h
           /\ households[h].size = config.household_size
           /\ 2 * Abs(households[h].balance * config.N_H - config.M0 * One)
                  <= config.N_H * Ulp(households[h].balance)

\* C13 as stated: after setup there are the N_F firms and N_H households of the
\* configuration, every firm with balance 0 and revenue 0, every household
\* with balance M0 / N_H, so the total money equals M0.
C13_InitialTotalExact ==
    tick = 0 =>
        /\ InitialWorld
        /\ TotalMoney(households, firms) = config.M0 * One

\* C13 (amended): after setup there are the N_F firms and N_H households of
\* the configuration, every firm with balance 0 and revenue 0, every household
\* with the float nearest to M0 / N_H as balance, so the total money equals M0
\* to within N_H / 2 units in the last place of that balance.
C13_InitialTotalWithinRounding ==
    tick = 0 =>
        /\ InitialWorld
        /\ \A h \in HouseholdIds :
               2 * Abs(TotalMoney(households, firms) - config.M0 * One)
                   <= config.N_H * Ulp(households[h].balance)

\* a world of three households right after setup whose balances do not add
\* up to M0
C13_Witness ==
    /\ tick = 0
    /\ phase = "READY"
    /\ config.N_H = 3
    /\ TotalMoney(households, firms) # config.M0 * One

\* the payday loop of run_one_tick run over the firms of order, in that order
RECURSIVE PaydayAll(_, _, _)
PaydayAll(order, fs, hhs) ==
    IF order = <<>> THEN [firms |-> fs, households |-> hhs]
    ELSE LET paid == pay_workers(fs[Head(order)], hhs)
         IN  PaydayAll(Tail(order),
                       [fs EXCEPT ![Head(order)] = paid.firm], paid.households)

\* all the orders in which the firms of S can be visited
Orders(S) ==
    {order \in [1..Cardinality(S) -> S] :
         \A i, j \in 1..Cardinality(S) : order[i] = order[j] => i = j}

\* the firms the payday loop has not visited yet, in the order in which the
\* loop of the code visits them
FirmsLeft == [i \in 1..(Cardinality(FirmIds) - fidx) |-> fidx + i - 1]

\* C14: in the payday phase of a tick every household's balance is written by
\* one firm only, its employer, and credited by it exactly once; so whatever
\* the order in which the firms run their payday, the state after the payday
\* phase is the same, and it is the state the loop of the code reaches.
C14_SingleWriterPayday ==
    [][/\ (phase = "RUNNING" /\ ShoppingDone /\ fidx = 0) =>
              \A order \in Orders(FirmIds) :
                  PaydayAll(order, firms, households)
                      = PaydayAll(FirmsLeft, firms, households)
       /\ last'.op = "payday" =>
              LET f == last'.firm
              IN  /\ PaydayAll(FirmsLeft, firms, households)
                         = PaydayAll(FirmsLeft', firms', households')
                  /\ \A h \in HouseholdIds :
                         /\ households[h].employer_id \in FirmIds
                         /\ households[h].employer_id # f =>
                                households'[h] = households[h]
                         /\ households[h].employer_id = f =>
                                households'[h].balance =
                                    fadd(households[h].balance,
                                         last'.wage_per_worker)
       /\ last'.op = "return" =>
              /\ households' = households
              /\ firms' = firms
              /\ PaydayAll(FirmsLeft, firms, households)
                     = [firms |-> firms, households |-> households]]_vars

\* the second of two firms with workers pays a wage > 0 after the first one
\* paid the revenue it made in the tick
C14_Witness ==
    /\ last.op = "payday"
    /\ last.firm >= 1
    /\ last.wage_per_worker > 0
    /\ \E g \in FirmIds :
           /\ g < last.firm
           /\ firms[g].worker_ids # <<>>
           /\ Len(SalesTo(shopped, g)) > 0

\* the engines the fair specification starts from: every population and every
\* assignment of employers, for one money supply, price and wage rate (whether
\* a tick terminates does not depend on the amounts)
FairInit ==
    /\ Init
    /\ config.M0 = 76
    /\ config.p = Lit(845, 100)
    /\ config.wage_rate = Lit(1, 2)

\* the engine under the scheduling of the code: run_one_tick is a
\* single-threaded call that runs to completion, so a step that can be taken
\* is eventually taken
FairSpec == FairInit /\ [][Next]_vars /\ WF_vars(Next)

\* C15: after setup the engine is READY; in every READY state run_one_tick can
\* be called (here: while fewer than MaxTicks ticks have run); it makes exactly
\* one purchase step per household, in id order, then exactly one payday step
\* per firm, in id order; a running tick always has a step to take (one that
\* had none would stay RUNNING for ever), it terminates and leaves the engine
\* READY.
C15_TickTerminates ==
    /\ [](tick = 0 => phase = "READY")
    /\ []((phase = "READY" /\ tick < MaxTicks) => ENABLED StartTick)
    /\ [][/\ last'.op = "shop" =>
                 last'.hh = hidx /\ hidx' = hidx + 1 /\ fidx = 0 /\ fidx' = 0
          /\ last'.op = "payday" =>
                 /\ last'.firm = fidx /\ fidx' = fidx + 1
                 /\ hidx = Cardinality(HouseholdIds) /\ hidx' = hidx
          /\ last'.op = "return" =>
                 /\ phase = "RUNNING" /\ phase' = "READY"
                 /\ hidx = Cardinality(HouseholdIds)
                 /\ fidx = Cardinality(FirmIds)
                 /\ Len(shopped) = Cardinality(HouseholdIds)]_vars
    /\ (phase = "RUNNING") ~> (phase = "READY")

\* the engine is READY again after the second tick of a world of two firms
\* and two households
C15_Witness ==
    /\ phase = "READY"
    /\ last.op = "return"
    /\ tick = 2
    /\ Cardinality(FirmIds) = 2
    /\ Len(shopped) = 2

\* C16: with wage_rate in [0, 1] and price > 0, every household balance, every
\* firm balance and every revenue accumulator is >= 0 in every reachable
\* state.
C16_NonNegativeEverywhere ==
    (\A f \in FirmIds :
         firms[f].price > 0 /\ firms[f].wage_rate >= 0 /\ firms[f].wage_rate <= One)
    => /\ \A h \in HouseholdIds : households[h].balance >= 0
       /\ \A f \in FirmIds :
              firms[f].balance >= 0 /\ firms[f].revenue_this_tick >= 0

\* exact sum of the revenue accumulators of the firms S
RECURSIVE SumRevenue(_, _)
SumRevenue(fs, S) ==
    IF S = {} THEN 0
    ELSE LET x == CHOOSE y \in S : TRUE
         IN  fs[x].revenue_this_tick + SumRevenue(fs, S \ {x})

\* all the money of a state: balances of households and firms plus the
\* revenue not yet folded into a balance
StepTotal(hhs, fs) == TotalMoney(hhs, fs) + SumRevenue(fs, DOMAIN fs)

\* C17 as stated: after every purchase step and every payday step the sum of
\* all household balances, firm balances and revenue accumulators equals the
\* total before the tick, and M0.
C17_StepConservationExact ==
    last.op \in {"shop", "payday"} =>
        /\ StepTotal(households, firms) = StepTotal(pre.households, pre.firms)
        /\ StepTotal(households, firms) = config.M0 * One

\* C17 (amended): after every purchase step and every payday step the sum of
\* all household balances, firm balances and revenue accumulators equals the
\* total before the tick to within 2 * (N_H + N_F) units in the last place of
\* that total, and M0 to within 4 * (N_H + N_F) * ticks + N_H units in the last
\* place of M0, ticks counting the calls of run_one_tick so far.
C17_StepConservationWithinRounding ==
    last.op \in {"shop", "payday"} =>
        LET before == StepTotal(pre.households, pre.firms)
            now == StepTotal(households, firms)
        IN  /\ Abs(now - before) <= 2 * (N_H + N_F) * Ulp(Abs(before))
            /\ Abs(now - config.M0 * One)
                   <= (4 * (N_H + N_F) * tick + N_H) * Ulp(config.M0 * One)

\* in the middle of a payday phase a firm still holds unfolded revenue, and
\* the money of the state is no longer exactly the total before the tick
C17_Witness ==
    /\ last.op = "payday"
    /\ \E f \in FirmIds : firms[f].revenue_this_tick > 0
    /\ StepTotal(households, firms) # StepTotal(pre.households, pre.firms)
    /\ TotalMoney(households, firms) < StepTotal(households, firms)

\* the amounts of the records of recs paid to firm f, in list order
RECURSIVE RecordedTo(_, _)
RecordedTo(recs, f) ==
    IF recs = <<>> THEN <<>>
    ELSE LET r == recs[Len(recs)]
             front == RecordedTo(SubSeq(recs, 1, Len(recs) - 1), f)
         IN  IF r.to_id = f THEN Append(front, r.amount) ELSE front

\* the amount of the record of household h in recs, 0 if it has none
RecordAmount(recs, h) ==
    LET S == {i \in 1..Len(recs) : recs[i].from_id = h}
    IN  IF S = {} THEN 0 ELSE recs[CHOOSE i \in S : TRUE].amount

\* the shopping loop of the tick has ended and no firm has had its payday
ShoppingJustDone == phase = "RUNNING" /\ ShoppingDone /\ fidx = 0

\* C18 as stated: at the end of the shopping phase the revenue accumulator of
\* every firm f equals the sum of the amounts of the records with to_id = f,
\* and the balance of every household has decreased since the tick began by
\* the amount of its record (0 if it has none); the records are the list
\* run_one_tick returns.
C18_RecordsAccountExact ==
    /\ ShoppingJustDone =>
           /\ \A f \in FirmIds :
                  firms[f].revenue_this_tick
                      = ExactSum(RecordedTo(transactions_this_tick, f))
           /\ \A h \in HouseholdIds :
                  pre.households[h].balance - households[h].balance
                      = RecordAmount(transactions_this_tick, h)
    /\ last.op = "return" => returned = transactions_this_tick

\* C18 (amended): at the end of the shopping phase the revenue accumulator of
\* every firm f equals the float sum of the amounts of the records with
\* to_id = f, added in list order with one rounding per record, and the balance
\* of every household is the float nearest to its balance when the tick began
\* minus the amount of its record (0 if it has none); the records are the list
\* run_one_tick returns.
C18_RecordsAccountFloat ==
    /\ ShoppingJustDone =>
           /\ \A f \in FirmIds :
                  firms[f].revenue_this_tick
                      = FloatSum(RecordedTo(transactions_this_tick, f))
           /\ \A h \in HouseholdIds :
                  households[h].balance
                      = fsub(pre.households[h].balance,
                             RecordAmount(transactions_this_tick, h))
    /\ last.op = "return" => returned = transactions_this_tick

\* at the end of a shopping phase a firm holds the float sum of two or more
\* records, which is not their exact sum, and a household's balance has not
\* decreased by exactly the amount of its record
C18_Witness ==
    /\ ShoppingJustDone
    /\ \E f \in FirmIds :
           /\ Len(RecordedTo(transactions_this_tick, f)) >= 2
           /\ firms[f].revenue_this_tick
                  # ExactSum(RecordedTo(transactions_this_tick, f))
    /\ \E h \in HouseholdIds :
           /\ RecordAmount(transactions_this_tick, h) > 0
           /\ pre.households[h].balance - households[h].balance
                  # RecordAmount(transactions_this_tick, h)

\* the steps of a firm without workers, with the balance after its payday
\* either exactly the sum of balance and revenue or the float nearest to it
SinkSteps(exact) ==
    \A f \in FirmIds :
        firms[f].worker_ids = <<>> =>
            /\ firms'[f].balance >= firms[f].balance
            /\ (last'.op = "payday" /\ last'.firm = f) =>
                   LET sum == firms[f].balance + firms[f].revenue_this_tick
                   IN  /\ IF exact
                          THEN firms'[f].balance = sum
                          ELSE 2 * Abs(firms'[f].balance - sum) <= Ulp(sum)
                       /\ last'.total_payout = 0
                       /\ households' = households

\* C19 as stated: the balance of a firm with an empty roster never decreases;
\* its payday adds exactly the tick's revenue to it and pays nothing out, so no
\* household balance changes.
C19_SinkExact == [][SinkSteps(TRUE)]_vars

\* C19 (amended): the balance of a firm with an empty roster never decreases;
\* its payday makes it the float nearest to balance + revenue of the tick and
\* pays nothing out, so no household balance changes.
C19_SinkWithinRounding == [][SinkSteps(FALSE)]_vars

\* a firm without workers that already holds money folds a revenue > 0 and
\* its new balance is not exactly the sum
C19_Witness ==
    /\ last.op = "payday"
    /\ firms[last.firm].worker_ids = <<>>
    /\ last.balance > 0
    /\ last.revenue > 0
    /\ firms[last.firm].balance # last.balance + last.revenue

====
